---- MODULE Spec2Model ----
(***************************************************************************)
(* Model of app.py: the npm dependency resolver (Package), its version     *)
(* normaliser (translate_version_syntax), the cache file cache.json        *)
(* (_init_cache / update_cache) and the tree renderer (get_tree).          *)
(*                                                                         *)
(* A Python str is modelled as the sequence of its characters, each a      *)
(* one-character TLA+ string, so "^1" is <<"^", "1">>.  A package name is  *)
(* kept as one TLA+ string: the program never looks inside a name.         *)
(***************************************************************************)
EXTENDS Integers, Sequences, FiniteSets, TLC

\* ------------------------------------------------------------------------
\* Bounds
\* ------------------------------------------------------------------------
\* longest specifier given to translate_version_syntax in NormSpec
MaxLen == 4
\* top-level requests served in one behaviour
MaxCalls == 2
\* registry requests that end in a transport error in one behaviour
MaxFailures == 1
\* deepest chain of nested Package() constructions before Python's
\* recursion limit raises RecursionError (scaled down from 1000)
MaxDepth == 4
\* longest dependency list of the caches CacheSpec starts from
MaxSeq == 2

\* ------------------------------------------------------------------------
\* Python string helpers
\* ------------------------------------------------------------------------
\* the characters specifiers are drawn from; "a" stands for any letter
\* other than x and X
Chars == {"0", "1", ".", "x", "X", "*", "~", "^", "<", "=", ">", " ", "a"}

\* str.isalpha() of one character
isalpha(c) == c \in {"a", "x", "X"}

\* the characters str.split() treats as whitespace
IsSpace(c) == c = " "

RECURSIVE SplitOn(_, _)
\* s.split(sep) for a one-character sep: always at least one segment
SplitOn(s, sep) ==
    IF \A i \in 1..Len(s) : s[i] # sep
    THEN <<s>>
    ELSE LET k == CHOOSE i \in 1..Len(s) :
                      s[i] = sep /\ \A j \in 1..(i - 1) : s[j] # sep
         IN  <<SubSeq(s, 1, k - 1)>> \o SplitOn(SubSeq(s, k + 1, Len(s)), sep)

RECURSIVE SplitWS(_)
\* s.split(): the maximal runs of non-whitespace, possibly none
SplitWS(s) ==
    IF \A i \in 1..Len(s) : IsSpace(s[i])
    THEN <<>>
    ELSE LET b == CHOOSE i \in 1..Len(s) :
                      ~IsSpace(s[i]) /\ \A j \in 1..(i - 1) : IsSpace(s[j])
             rest == SubSeq(s, b, Len(s))
             e == IF \E i \in 1..Len(rest) : IsSpace(rest[i])
                  THEN (CHOOSE i \in 1..Len(rest) :
                            IsSpace(rest[i])
                            /\ \A j \in 1..(i - 1) : ~IsSpace(rest[j])) - 1
                  ELSE Len(rest)
         IN  <<SubSeq(rest, 1, e)>> \o SplitWS(SubSeq(rest, e + 1, Len(rest)))

RECURSIVE Join(_, _)
\* sep.join(parts)
Join(parts, sep) ==
    IF parts = <<>> THEN <<>>
    ELSE IF Len(parts) = 1 THEN parts[1]
    ELSE parts[1] \o <<sep>> \o Join(Tail(parts), sep)

\* s.replace(old, new) for one-character old and new
Replace(s, old, new) == [i \in 1..Len(s) |-> IF s[i] = old THEN new ELSE s[i]]

RECURSIVE LStrip(_, _)
\* s.lstrip(chars)
LStrip(s, chars) ==
    IF s # <<>> /\ s[1] \in chars THEN LStrip(Tail(s), chars) ELSE s

\* ------------------------------------------------------------------------
\* translate_version_syntax
\* ------------------------------------------------------------------------
\* the outcome of a call: a returned value or a raised exception
Returned(v) == [raised |-> "", value |-> v]
Raised(e) == [raised |-> e, value |-> <<>>]

\* version = version.split(); version = version[0]   (lines 21-22)
FirstToken(version) ==
    LET tokens == SplitWS(version)
    IN  IF tokens = <<>> THEN Raised("IndexError") ELSE Returned(tokens[1])

\* lines 25-29 with one '0' appended whatever the number of segments missing
ExtendVersion_PadOne(version) ==
    LET split_version == SplitOn(version, ".")
    IN  IF Len(split_version) < 3
        THEN Join(split_version \o << <<"0">> >>, ".")
        ELSE version

\* lines 25-29: extend to three dot-separated segments when there are fewer
ExtendVersion(version) ==
    LET split_version == SplitOn(version, ".")
    IN  IF Len(split_version) < 3
        THEN Join(split_version
                  \o [i \in 1..(3 - Len(split_version)) |-> <<"0">>], ".")
        ELSE version

\* lines 37-40 with version[1:] for the lstrip of line 40: one leading
\* character is dropped when it is an operator
TranslateWildcards_StripOne(version) ==
    LET replaced == Replace(Replace(Replace(version, "x", "0"), "X", "0"), "*", "0")
    IN  IF replaced # <<>> /\ replaced[1] \in {"~", "^", "<", "=", ">", " "}
        THEN Tail(replaced) ELSE replaced

\* lines 37-40
TranslateWildcards(version) ==
    LStrip(Replace(Replace(Replace(version, "x", "0"), "X", "0"), "*", "0"),
           {"~", "^", "<", "=", ">", " "})

translate_version_syntax(version) ==
    IF \E i \in 1..Len(version) :
           isalpha(version[i]) /\ version[i] # "x" /\ version[i] # "X"
    THEN Returned(version)
    ELSE LET first == FirstToken(version)
         IN  IF first.raised # "" THEN first
             ELSE Returned(TranslateWildcards(ExtendVersion(first.value)))

\* ------------------------------------------------------------------------
\* Data model
\* ------------------------------------------------------------------------
\* the request threads of the server; Spec runs requests on thread 1 only
Threads == {1, 2}

\* package names of the modelled registry
Names == {"a", "b"}

\* the raw specifiers packages declare for their dependencies
DepSpecs == {<<"^", "1">>, <<>>}

\* the versions a caller asks for in the URL /<pkg_name>/<version>
RootVersions == {<<"^", "1">>, <<"1", ".", "0", ".", "0">>}

\* the pair (name, version), key of CACHE and element of a dependency list
Id(name, ver) == [name |-> name, version |-> ver]

\* Package.CACHE: None before _init_cache ran, afterwards a dict; keys is
\* the dict's insertion order and deps its mapping
NoneCache == [none |-> TRUE, keys |-> <<>>, deps |-> <<>>]
EmptyCache == [none |-> FALSE, keys |-> <<>>, deps |-> <<>>]

\* pkg_id in Package.CACHE
CacheHas(C, id) == id \in DOMAIN C.deps

\* Package.CACHE[id] = list
CachePut(C, id, list) ==
    [none |-> FALSE,
     keys |-> IF CacheHas(C, id) THEN C.keys ELSE Append(C.keys, id),
     deps |-> (id :> list) @@ C.deps]

\* ------------------------------------------------------------------------
\* cache.json
\* ------------------------------------------------------------------------
\* The file is absent, or holds text that is not JSON ("garbage"), or a JSON
\* value that is not iterable ("scalar"), or a JSON array.  An element of
\* the array is a {"name", "version", "deps"} object ("record") or any other
\* JSON value ("other").
AbsentFile == [kind |-> "absent", items |-> <<>>]
GarbageFile == [kind |-> "garbage", items |-> <<>>]
ScalarFile == [kind |-> "scalar", items |-> <<>>]
ArrayFile(items) == [kind |-> "array", items |-> items]
JsonRecord(name, ver, deps) ==
    [shape |-> "record", name |-> name, version |-> ver, deps |-> deps]
OtherJson == [shape |-> "other", name |-> "", version |-> <<>>, deps |-> <<>>]

\* json.dump of the list of tuples pkg_deps: each tuple becomes a JSON list
DumpDeps(pkg_deps) ==
    [i \in 1..Len(pkg_deps) |-> <<pkg_deps[i].name, pkg_deps[i].version>>]

\* update_cache that writes no record for a package without dependencies
update_cache_SkipLeaves(C) ==
    LET kept == SelectSeq(C.keys, LAMBDA k : C.deps[k] # <<>>)
    IN  ArrayFile([i \in 1..Len(kept) |->
                      JsonRecord(kept[i].name, kept[i].version,
                                 DumpDeps(C.deps[kept[i]]))])

\* update_cache: one record per item of CACHE, in the dict's order
update_cache(C) ==
    ArrayFile([i \in 1..Len(C.keys) |->
                  JsonRecord(C.keys[i].name, C.keys[i].version,
                             DumpDeps(C.deps[C.keys[i]]))])

\* line 82: deps = [(name, ver) for name, ver in item["deps"]]
LoadDeps(deps) == [i \in 1..Len(deps) |-> Id(deps[i][1], deps[i][2])]

RECURSIVE LoadItems(_, _)
\* lines 80-84: the loop over the parsed array; an element that is not a
\* record raises (KeyError or TypeError) and leaves the items loaded so far
LoadItems(items, C) ==
    IF items = <<>> THEN [cache |-> C, raised |-> ""]
    ELSE IF Head(items).shape # "record" THEN [cache |-> C, raised |-> "KeyError"]
    ELSE LoadItems(Tail(items),
                   CachePut(C, Id(Head(items).name, Head(items).version),
                            LoadDeps(Head(items).deps)))

\* lines 66-91 with the file created when it is not there: the handler of
\* FileNotFoundError writes an empty array to cache.json
_init_cache_CreateFile(C, file) ==
    IF ~C.none THEN [cache |-> C, file |-> file, raised |-> ""]
    ELSE IF file.kind = "absent"
    THEN [cache |-> EmptyCache, file |-> ArrayFile(<<>>), raised |-> ""]
    ELSE IF file.kind = "garbage"
    THEN [cache |-> EmptyCache, file |-> AbsentFile, raised |-> ""]
    ELSE IF file.kind = "scalar"
    THEN [cache |-> EmptyCache, file |-> file, raised |-> "TypeError"]
    ELSE LET loaded == LoadItems(file.items, EmptyCache)
         IN  [cache |-> loaded.cache, file |-> file, raised |-> loaded.raised]

\* _init_cache: the cache, the file and the exception it leaves behind
_init_cache(C, file) ==
    IF ~C.none THEN [cache |-> C, file |-> file, raised |-> ""]
    ELSE IF file.kind = "absent"
    THEN [cache |-> EmptyCache, file |-> file, raised |-> ""]
    ELSE IF file.kind = "garbage"
    THEN [cache |-> EmptyCache, file |-> AbsentFile, raised |-> ""]
    ELSE IF file.kind = "scalar"
    THEN [cache |-> EmptyCache, file |-> file, raised |-> "TypeError"]
    ELSE LET loaded == LoadItems(file.items, EmptyCache)
         IN  [cache |-> loaded.cache, file |-> file, raised |-> loaded.raised]

\* ------------------------------------------------------------------------
\* get_tree
\* ------------------------------------------------------------------------
\* one line of the tree text: "│" + "─" * depth + name(version)
TreeLine(depth, pkg) ==
    [kind |-> "node", depth |-> depth, name |-> pkg.name, version |-> pkg.version]
\* the first line, "Dependency Tree for name(version):"
TreeHeader(name, ver) ==
    [kind |-> "header", depth |-> 0, name |-> name, version |-> ver]

InSeq(x, seq) == \E i \in 1..Len(seq) : seq[i] = x

RECURSIVE get_tree(_, _, _, _, _)
RECURSIVE TreeLoop(_, _, _, _, _)
RECURSIVE TreeLoop_OwnList(_, _, _, _, _)
RECURSIVE TreeLoop_SameDepth(_, _, _, _, _)
\* lines 156-167; Package.CACHE[pkg] raises KeyError when pkg is no key
get_tree(C, pkg, tree, discovered, depth) ==
    LET tree1 == Append(tree, TreeLine(depth, pkg))
        discovered1 == Append(discovered, pkg)
    IN  IF ~CacheHas(C, pkg)
        THEN [raised |-> "KeyError", tree |-> tree1, discovered |-> discovered1]
        ELSE TreeLoop(C, C.deps[pkg], tree1, discovered1, depth)

\* lines 163-165 with each recursive call working on its own copy of
\* discovered: what a subtree printed is unknown to the next sibling
TreeLoop_OwnList(C, deps, tree, discovered, depth) ==
    IF deps = <<>>
    THEN [raised |-> "", tree |-> tree, discovered |-> discovered]
    ELSE IF InSeq(Head(deps), discovered)
    THEN TreeLoop_OwnList(C, Tail(deps), tree, discovered, depth)
    ELSE LET sub == get_tree(C, Head(deps), tree, discovered, depth + 1)
         IN  IF sub.raised # "" THEN sub
             ELSE TreeLoop_OwnList(C, Tail(deps), sub.tree, discovered, depth)

\* lines 163-165 with depth passed on unchanged by line 165
TreeLoop_SameDepth(C, deps, tree, discovered, depth) ==
    IF deps = <<>>
    THEN [raised |-> "", tree |-> tree, discovered |-> discovered]
    ELSE IF InSeq(Head(deps), discovered)
    THEN TreeLoop_SameDepth(C, Tail(deps), tree, discovered, depth)
    ELSE LET sub == get_tree(C, Head(deps), tree, discovered, depth)
         IN  IF sub.raised # "" THEN sub
             ELSE TreeLoop_SameDepth(C, Tail(deps), sub.tree, sub.discovered, depth)

\* lines 163-165: the loop over the dependencies of a node at this depth
TreeLoop(C, deps, tree, discovered, depth) ==
    IF deps = <<>>
    THEN [raised |-> "", tree |-> tree, discovered |-> discovered]
    ELSE IF InSeq(Head(deps), discovered)
    THEN TreeLoop(C, Tail(deps), tree, discovered, depth)
    ELSE LET sub == get_tree(C, Head(deps), tree, discovered, depth + 1)
         IN  IF sub.raised # "" THEN sub
             ELSE TreeLoop(C, Tail(deps), sub.tree, sub.discovered, depth)

\* ------------------------------------------------------------------------
\* The registry (https://registry.npmjs.org), an external service
\* ------------------------------------------------------------------------
\* a JSON object name -> specifier, in declaration order: distinct names
NameSeqs ==
    {ns \in UNION {[1..n -> Names] : n \in 0..Cardinality(Names)} :
        \A i, j \in 1..Len(ns) : i # j => ns[i] # ns[j]}
Mappings ==
    UNION {{[i \in 1..Len(ns) |-> <<ns[i], sp[i]>>] :
               sp \in [1..Len(ns) -> DepSpecs]} : ns \in NameSeqs}

\* the parsed body of an answer: which of the two keys it has, and their
\* values
PkgInfo(has_deps, deps, has_dev, dev) ==
    [has_dependencies |-> has_deps, dependencies |-> deps,
     has_devDependencies |-> has_dev, devDependencies |-> dev]
NoFields == PkgInfo(FALSE, <<>>, FALSE, <<>>)

\* the devDependencies mappings of the modelled registry
DevMappings == {<< <<"a", <<"^", "1">> >> >>}

\* the bodies the registry answers with: no key, "dependencies" alone,
\* "devDependencies" alone, or an empty "dependencies" next to
\* "devDependencies"
PkgInfos ==
    {NoFields}
    \cup {PkgInfo(TRUE, m, FALSE, <<>>) : m \in Mappings}
    \cup {PkgInfo(FALSE, <<>>, TRUE, d) : d \in DevMappings}
    \cup {PkgInfo(TRUE, <<>>, TRUE, d) : d \in DevMappings}

\* an HTTP answer: the status, whether the body parses as JSON, the body.
\* A version the registry does not have is answered 404, with an error
\* body that has neither key.
Response(status, json, pkg_info) ==
    [status |-> status, json |-> json, pkg_info |-> pkg_info]
Responses ==
    {Response(200, TRUE, p) : p \in PkgInfos}
    \cup {Response(404, TRUE, NoFields), Response(404, FALSE, NoFields)}

\* lines 140-143 with "if pkg_info.get('dependencies')" for the test of line
\* 140: an empty "dependencies" counts as absent
SelectDependencies_Truthy(pkg_info) ==
    IF pkg_info.has_dependencies /\ pkg_info.dependencies # <<>>
    THEN pkg_info.dependencies
    ELSE IF pkg_info.has_devDependencies THEN pkg_info.devDependencies
    ELSE <<>>

\* lines 140-143: the mapping discover_deps hands to add_dependencies
SelectDependencies(pkg_info) ==
    IF pkg_info.has_dependencies THEN pkg_info.dependencies
    ELSE IF pkg_info.has_devDependencies THEN pkg_info.devDependencies
    ELSE <<>>

\* ------------------------------------------------------------------------
\* State
\* ------------------------------------------------------------------------
VARIABLES
    CACHE,      \* Package.CACHE
    file,       \* cache.json
    registry,   \* the answers the registry has given, by identity
    stack,      \* per thread: the nested Package() constructions, outermost first
    request,    \* per thread: the route being served, its position, and the
                \* entries that were complete when it started
    outcome,    \* per thread: how the last top-level Package() ended, and pkg.deps
    tree,       \* per thread: the text get_tree returned
    calls,      \* requests started
    failures,   \* transport errors so far
    fetched,    \* per thread: identities requested from the registry in this call
    failed,     \* per thread: identities whose request failed in this call
    resolved,   \* identities whose top-level Package() returned normally
    aborted,    \* identities whose top-level Package() was aborted by a failed fetch
    saved,      \* the CACHE last written by update_cache, while the file is that write
    boot,       \* "" until _init_cache fills CACHE, then "empty" or "records"
    version,    \* NormSpec: the specifier under translation
    translated  \* NormSpec: what translate_version_syntax made of it

vars == <<CACHE, file, registry, stack, request, outcome, tree, calls, failures,
          fetched, failed, resolved, aborted, saved, boot, version,
          translated>>

normVars == <<version, translated>>
ghostVars == <<fetched, failed, resolved, aborted>>

Idle == [phase |-> "idle", name |-> "", version |-> <<>>,
         again |-> FALSE, retry |-> FALSE, complete |-> <<>>]
NoOutcome == [result |-> "", deps |-> <<>>]
NoTree == [raised |-> "", tree |-> <<>>]
NothingSaved == [valid |-> FALSE, cache |-> NoneCache]
NotTranslated == [done |-> FALSE, raised |-> "", value |-> <<>>]

\* the files a process may find when it starts
InitFiles ==
    {AbsentFile, GarbageFile, ScalarFile,
     ArrayFile(<<JsonRecord("a", <<"1", ".", "0", ".", "0">>, <<>>), OtherJson>>)}

Init ==
    /\ CACHE = NoneCache
    /\ file \in InitFiles
    /\ registry = <<>>
    /\ stack = [t \in Threads |-> <<>>]
    /\ request = [t \in Threads |-> Idle]
    /\ outcome = [t \in Threads |-> NoOutcome]
    /\ tree = [t \in Threads |-> NoTree]
    /\ calls = 0
    /\ failures = 0
    /\ fetched = [t \in Threads |-> {}]
    /\ failed = [t \in Threads |-> {}]
    /\ resolved = {}
    /\ aborted = {}
    /\ saved = NothingSaved
    /\ boot = ""
    /\ version = <<>>
    /\ translated = NotTranslated

\* the registry has answered for id with a body that parsed
Answered(id) == id \in DOMAIN registry /\ registry[id].json

\* the mapping the answer for id selects
Declared(id) == SelectDependencies(registry[id].pkg_info)

Normalizable(m) ==
    \A i \in 1..Len(m) : translate_version_syntax(m[i][2]).raised = ""

\* the declared dependencies of id, normalized, in declaration order
Expected(id) ==
    [i \in 1..Len(Declared(id)) |->
        Id(Declared(id)[i][1], translate_version_syntax(Declared(id)[i][2]).value)]

\* the entry of id is exactly what its metadata declares
FullyDiscovered(id) ==
    /\ id \in DOMAIN CACHE.deps
    /\ Answered(id)
    /\ Normalizable(Declared(id))
    /\ CACHE.deps[id] = Expected(id)

\* the entries of CACHE that are exactly what the registry declares
CompleteEntries ==
    [id \in {k \in DOMAIN CACHE.deps : FullyDiscovered(k)} |-> CACHE.deps[id]]

\* ------------------------------------------------------------------------
\* Package(name, version): one frame per construction in progress
\* ------------------------------------------------------------------------
\* pc: "init" before line 60, "discover" before line 64, "fetch" before
\* line 136, "iter" inside the loop of add_dependencies, "wait" while the
\* Package() of line 119 runs.  deps_set is "self.deps is not None"; linked
\* says that the list self.deps is still the object stored in CACHE under
\* the frame's key (line 134 stores the list itself, not a copy).
NewFrame(name, ver) ==
    [name |-> name, version |-> ver, deps |-> <<>>, deps_set |-> FALSE,
     linked |-> FALSE, pc |-> "init", todo |-> <<>>]

Key(f) == Id(f.name, f.version)
Top(t) == stack[t][Len(stack[t])]
Root(t) == Id(request[t].name, request[t].version)
SetTop(t, f) == [stack EXCEPT ![t] = [@ EXCEPT ![Len(@)] = f]]

\* self.deps.append(pkg_id): the list grows, and with it the entry of CACHE
\* when the list is the one stored there
AppendDep(f, pkg_id) == [f EXCEPT !.deps = Append(@, pkg_id)]
CacheAfterAppend(C, f, pkg_id) ==
    IF f.linked THEN [C EXCEPT !.deps[Key(f)] = Append(@, pkg_id)] ELSE C

\* an exception nothing catches unwinds every frame of the thread and ends
\* its request; what the request found complete when it started is kept
\* for comparison with what it leaves
Raise(t, e) ==
    /\ stack' = [stack EXCEPT ![t] = <<>>]
    /\ request' = [request EXCEPT ![t] = [Idle EXCEPT !.complete = request[t].complete]]
    /\ outcome' = [outcome EXCEPT ![t] = [result |-> e, deps |-> <<>>]]

\* line 173: present_dependencies calls Package(pkg_name, version)
Request(t, name, ver) ==
    /\ request[t].phase = "idle"
    /\ calls < MaxCalls
    /\ calls' = calls + 1
    /\ request' = [request EXCEPT ![t] =
                      [phase |-> "resolving", name |-> name, version |-> ver,
                       again |-> Id(name, ver) \in resolved,
                       retry |-> Id(name, ver) \in aborted,
                       complete |-> CompleteEntries]]
    /\ stack' = [stack EXCEPT ![t] = <<NewFrame(name, ver)>>]
    /\ outcome' = [outcome EXCEPT ![t] = NoOutcome]
    /\ tree' = [tree EXCEPT ![t] = NoTree]
    /\ fetched' = [fetched EXCEPT ![t] = {}]
    /\ failed' = [failed EXCEPT ![t] = {}]
    /\ UNCHANGED <<CACHE, file, registry, failures, resolved, aborted, saved,
                   boot, normVars>>

\* line 60: Package._init_cache()
InitCache(t) ==
    /\ stack[t] # <<>>
    /\ Top(t).pc = "init"
    /\ LET ic == _init_cache(CACHE, file)
       IN  /\ CACHE' = ic.cache
           /\ file' = ic.file
           /\ boot' = IF ~CACHE.none THEN boot
                      ELSE IF ic.cache.keys = <<>> THEN "empty" ELSE "records"
           /\ saved' = IF ic.file = file THEN saved ELSE NothingSaved
           /\ IF ic.raised # ""
              THEN Raise(t, ic.raised)
              ELSE /\ stack' = SetTop(t, [Top(t) EXCEPT !.pc = "discover"])
                   /\ UNCHANGED <<request, outcome>>
    /\ UNCHANGED <<registry, tree, calls, failures, ghostVars, normVars>>

\* lines 128-134 without line 134: self.deps = [] and then the fetch, the
\* list not stored in CACHE
Register_NotStored(t) ==
    /\ stack[t] # <<>>
    /\ Top(t).pc = "discover"
    /\ stack' = SetTop(t, [Top(t) EXCEPT !.deps = <<>>, !.deps_set = TRUE,
                                        !.pc = "fetch"])
    /\ UNCHANGED <<CACHE, file, registry, request, outcome, tree, calls, failures,
                   ghostVars, saved, boot, normVars>>

\* lines 128-134 with the test of line 118 made again before line 132: a
\* Package() whose identity has become a key since its caller looked does
\* not register it and does not fetch
Register_CheckAgain(t) ==
    /\ stack[t] # <<>>
    /\ Top(t).pc = "discover"
    /\ LET f == Top(t)
       IN  IF f.deps_set \/ CacheHas(CACHE, Key(f))
           THEN /\ stack' = SetTop(t, [f EXCEPT !.pc = "iter", !.todo = <<>>])
                /\ UNCHANGED CACHE
           ELSE /\ CACHE' = CachePut(CACHE, Key(f), <<>>)
                /\ stack' = SetTop(t, [f EXCEPT !.deps = <<>>, !.deps_set = TRUE,
                                               !.linked = TRUE, !.pc = "fetch"])
    /\ UNCHANGED <<file, registry, request, outcome, tree, calls, failures,
                   ghostVars, saved, boot, normVars>>

\* lines 128-134: the guard of discover_deps, then self.deps = [] and
\* CACHE[(self.name, self.version)] = self.deps
Register(t) ==
    /\ stack[t] # <<>>
    /\ Top(t).pc = "discover"
    /\ LET f == Top(t)
       IN  IF f.deps_set
           THEN /\ stack' = SetTop(t, [f EXCEPT !.pc = "iter", !.todo = <<>>])
                /\ UNCHANGED CACHE
           ELSE /\ CACHE' = CachePut(CACHE, Key(f), <<>>)
                /\ stack' = [u \in Threads |->
                               [i \in 1..Len(stack[u]) |->
                                   IF u = t /\ i = Len(stack[t])
                                   THEN [f EXCEPT !.deps = <<>>, !.deps_set = TRUE,
                                                  !.linked = TRUE, !.pc = "fetch"]
                                   ELSE IF Key(stack[u][i]) = Key(f)
                                   THEN [stack[u][i] EXCEPT !.linked = FALSE]
                                   ELSE stack[u][i]]]
    /\ UNCHANGED <<file, registry, request, outcome, tree, calls, failures,
                   ghostVars, saved, boot, normVars>>

\* line 136, requests.get raises: the request never got an answer
FetchError(t) ==
    /\ stack[t] # <<>>
    /\ Top(t).pc = "fetch"
    /\ failures < MaxFailures
    /\ failures' = failures + 1
    /\ fetched' = [fetched EXCEPT ![t] = @ \cup {Key(Top(t))}]
    /\ failed' = [failed EXCEPT ![t] = @ \cup {Key(Top(t))}]
    /\ aborted' = aborted \cup {Root(t)}
    /\ Raise(t, "ConnectionError")
    /\ UNCHANGED <<CACHE, file, registry, tree, calls, resolved, saved, boot,
                   normVars>>

\* lines 136-143: the registry answers; response.json() parses the body
\* whatever the status, and the mapping to walk is selected
FetchResponse(t) ==
    /\ stack[t] # <<>>
    /\ Top(t).pc = "fetch"
    /\ LET f == Top(t)
           id == Key(f)
       IN  \E r \in (IF id \in DOMAIN registry THEN {registry[id]} ELSE Responses) :
               /\ registry' = (id :> r) @@ registry
               /\ fetched' = [fetched EXCEPT ![t] = @ \cup {id}]
               /\ failed' = [failed EXCEPT ![t] =
                                IF r.status = 200 THEN @ ELSE @ \cup {id}]
               /\ IF ~r.json
                  THEN /\ Raise(t, "JSONDecodeError")
                       /\ aborted' = aborted \cup {Root(t)}
                  ELSE /\ stack' = SetTop(t, [f EXCEPT !.pc = "iter",
                                     !.todo = SelectDependencies(r.pkg_info)])
                       /\ UNCHANGED <<request, outcome, aborted>>
    /\ UNCHANGED <<CACHE, file, tree, calls, failures, resolved, saved, boot,
                   normVars>>

\* line 118 without its test: a Package is built for every dependency
NeedsPackage_Always(C, pkg_id) == TRUE

\* line 118: if pkg_id not in Package.CACHE
NeedsPackage(C, pkg_id) == ~CacheHas(C, pkg_id)

\* lines 112-121 with the append of line 121 moved before the test of line
\* 118: the identity is in the list before its Package() is built
AddDependency_AppendFirst(t) ==
    /\ stack[t] # <<>>
    /\ Top(t).pc = "iter"
    /\ Top(t).todo # <<>>
    /\ LET f == Top(t)
           name == Head(f.todo)[1]
           ver == translate_version_syntax(Head(f.todo)[2])
           pkg_id == Id(name, ver.value)
       IN  IF ver.raised # ""
           THEN Raise(t, ver.raised) /\ UNCHANGED CACHE
           ELSE IF NeedsPackage(CACHE, pkg_id)
           THEN IF Len(stack[t]) >= MaxDepth
                THEN Raise(t, "RecursionError") /\ UNCHANGED CACHE
                ELSE /\ stack' = [stack EXCEPT ![t] =
                                     Append([@ EXCEPT ![Len(@)] =
                                                [AppendDep(f, pkg_id) EXCEPT !.pc = "wait"]],
                                            NewFrame(name, ver.value))]
                     /\ CACHE' = CacheAfterAppend(CACHE, f, pkg_id)
                     /\ UNCHANGED <<request, outcome>>
           ELSE /\ stack' = SetTop(t, [AppendDep(f, pkg_id) EXCEPT !.todo = Tail(@)])
                /\ CACHE' = CacheAfterAppend(CACHE, f, pkg_id)
                /\ UNCHANGED <<request, outcome>>
    /\ UNCHANGED <<file, registry, tree, calls, failures, ghostVars, saved, boot,
                   normVars>>

\* lines 112-121, one turn of the loop for a dependency that is in CACHE or
\* whose specifier makes translate_version_syntax raise, and the start of
\* the turn (up to the call of line 119) for one that is not in CACHE
AddDependency(t) ==
    /\ stack[t] # <<>>
    /\ Top(t).pc = "iter"
    /\ Top(t).todo # <<>>
    /\ LET f == Top(t)
           name == Head(f.todo)[1]
           ver == translate_version_syntax(Head(f.todo)[2])
           pkg_id == Id(name, ver.value)
       IN  IF ver.raised # ""
           THEN Raise(t, ver.raised) /\ UNCHANGED CACHE
           ELSE IF NeedsPackage(CACHE, pkg_id)
           THEN IF Len(stack[t]) >= MaxDepth
                THEN Raise(t, "RecursionError") /\ UNCHANGED CACHE
                ELSE /\ stack' = [stack EXCEPT ![t] =
                                     Append([@ EXCEPT ![Len(@)].pc = "wait"],
                                            NewFrame(name, ver.value))]
                     /\ UNCHANGED <<CACHE, request, outcome>>
           ELSE /\ stack' = SetTop(t, [AppendDep(f, pkg_id) EXCEPT !.todo = Tail(@)])
                /\ CACHE' = CacheAfterAppend(CACHE, f, pkg_id)
                /\ UNCHANGED <<request, outcome>>
    /\ UNCHANGED <<file, registry, tree, calls, failures, ghostVars, saved, boot,
                   normVars>>

\* the loop of add_dependencies is over and a nested Package() returns to
\* line 121 of its caller, which appends the identity it was resolving
ReturnToParent(t) ==
    /\ Len(stack[t]) > 1
    /\ Top(t).pc = "iter"
    /\ Top(t).todo = <<>>
    /\ LET parent == stack[t][Len(stack[t]) - 1]
           pkg_id == Key(Top(t))
       IN  /\ stack' = [stack EXCEPT ![t] =
                           Append(SubSeq(@, 1, Len(@) - 2),
                                  [AppendDep(parent, pkg_id) EXCEPT
                                      !.todo = Tail(@), !.pc = "iter"])]
           /\ CACHE' = CacheAfterAppend(CACHE, parent, pkg_id)
    /\ UNCHANGED <<file, registry, request, outcome, tree, calls, failures,
                   ghostVars, saved, boot, normVars>>

\* the top-level Package() returns to present_dependencies
ReturnToRoute(t) ==
    /\ Len(stack[t]) = 1
    /\ Top(t).pc = "iter"
    /\ Top(t).todo = <<>>
    /\ stack' = [stack EXCEPT ![t] = <<>>]
    /\ outcome' = [outcome EXCEPT ![t] = [result |-> "returned", deps |-> Top(t).deps]]
    /\ resolved' = resolved \cup {Key(Top(t))}
    /\ request' = [request EXCEPT ![t].phase = "update_cache"]
    /\ UNCHANGED <<CACHE, file, registry, tree, calls, failures, fetched, failed,
                   aborted, saved, boot, normVars>>

\* line 176: pkg.update_cache()
UpdateCache(t) ==
    /\ request[t].phase = "update_cache"
    /\ file' = update_cache(CACHE)
    /\ saved' = [valid |-> TRUE, cache |-> CACHE]
    /\ request' = [request EXCEPT ![t].phase = "get_tree"]
    /\ UNCHANGED <<CACHE, registry, stack, outcome, tree, calls, failures,
                   ghostVars, boot, normVars>>

\* lines 179-180: get_tree from the requested package; a KeyError ends the
\* request without a tree
GetTree(t) ==
    /\ request[t].phase = "get_tree"
    /\ LET r == get_tree(CACHE, Root(t),
                         <<TreeHeader(request[t].name, request[t].version)>>,
                         <<>>, 0)
       IN  tree' = [tree EXCEPT ![t] =
                       [raised |-> r.raised,
                        tree |-> IF r.raised = "" THEN r.tree ELSE <<>>]]
    /\ request' = [request EXCEPT ![t].phase = "idle"]
    /\ UNCHANGED <<CACHE, file, registry, stack, outcome, calls, failures,
                   ghostVars, saved, boot, normVars>>

\* the server process ends and a new one starts: CACHE is None again
\* (line 53), cache.json stays
Restart ==
    /\ \A t \in Threads : request[t].phase = "idle"
    /\ ~CACHE.none
    /\ calls < MaxCalls
    /\ CACHE' = NoneCache
    /\ boot' = ""
    /\ resolved' = {}
    /\ aborted' = {}
    /\ UNCHANGED <<file, registry, stack, request, outcome, tree, calls, failures,
                   fetched, failed, saved, normVars>>

Step(t) ==
    \/ InitCache(t)
    \/ Register(t)
    \/ FetchError(t)
    \/ FetchResponse(t)
    \/ AddDependency(t)
    \/ ReturnToParent(t)
    \/ ReturnToRoute(t)
    \/ UpdateCache(t)
    \/ GetTree(t)

Next ==
    \/ \E name \in Names, ver \in RootVersions : Request(1, name, ver)
    \/ Step(1)
    \/ Restart

Spec == Init /\ [][Next]_vars

\* ------------------------------------------------------------------------
\* NormSpec: translate_version_syntax on every specifier up to MaxLen
\* ------------------------------------------------------------------------
Specifiers == UNION {[1..n -> Chars] : n \in 0..MaxLen}

\* the variables a specification does not use stay as Init leaves them
Quiet ==
    /\ registry = <<>>
    /\ stack = [t \in Threads |-> <<>>]
    /\ request = [t \in Threads |-> Idle]
    /\ outcome = [t \in Threads |-> NoOutcome]
    /\ calls = 0
    /\ failures = 0
    /\ fetched = [t \in Threads |-> {}]
    /\ failed = [t \in Threads |-> {}]
    /\ resolved = {}
    /\ aborted = {}

NormInit ==
    /\ Quiet
    /\ CACHE = NoneCache
    /\ file = AbsentFile
    /\ tree = [t \in Threads |-> NoTree]
    /\ saved = NothingSaved
    /\ boot = ""
    /\ version \in Specifiers
    /\ translated = NotTranslated

\* line 114: ver = translate_version_syntax(ver)
Translate ==
    /\ ~translated.done
    /\ LET r == translate_version_syntax(version)
       IN  translated' = [done |-> TRUE, raised |-> r.raised, value |-> r.value]
    /\ UNCHANGED <<CACHE, file, registry, stack, request, outcome, tree, calls,
                   failures, ghostVars, saved, boot, version>>

NormSpec == NormInit /\ [][Translate]_vars

\* ------------------------------------------------------------------------
\* CacheSpec: update_cache, _init_cache and get_tree on every cache a
\* cache.json of records can load, up to MaxSeq
\* ------------------------------------------------------------------------
CacheIds ==
    {Id("a", <<"1", ".", "0", ".", "0">>), Id("b", <<"1", ".", "0", ".", "0">>),
     Id("a", <<"^", "1">>)}
DepLists == UNION {[1..n -> CacheIds] : n \in 0..MaxSeq}

RECURSIVE SeqOf(_)
\* the elements of a finite set in some order
SeqOf(S) ==
    IF S = {} THEN <<>>
    ELSE LET x == CHOOSE y \in S : TRUE IN <<x>> \o SeqOf(S \ {x})

CacheOf(f) == [none |-> FALSE, keys |-> SeqOf(DOMAIN f), deps |-> f]
Caches == {CacheOf(f) : f \in UNION {[K -> DepLists] : K \in SUBSET CacheIds}}

CacheInit ==
    /\ Quiet
    /\ CACHE \in Caches
    /\ file = AbsentFile
    /\ tree = [t \in Threads |-> NoTree]
    /\ saved = NothingSaved
    /\ boot = "records"
    /\ version = <<>>
    /\ translated = NotTranslated

\* Package.update_cache() on the loaded cache
Persist ==
    /\ ~CACHE.none
    /\ ~saved.valid
    /\ file' = update_cache(CACHE)
    /\ saved' = [valid |-> TRUE, cache |-> CACHE]
    /\ UNCHANGED <<CACHE, registry, stack, request, outcome, tree, calls,
                   failures, ghostVars, boot, normVars>>

\* the next process reads the file back: CACHE is None, then _init_cache
Reload ==
    /\ saved.valid
    /\ boot = "records"
    /\ CACHE' = _init_cache(NoneCache, file).cache
    /\ file' = _init_cache(NoneCache, file).file
    /\ boot' = "reloaded"
    /\ UNCHANGED <<registry, stack, request, outcome, tree, calls, failures,
                   ghostVars, saved, normVars>>

\* get_tree(pkg, "") as test_tree and present_dependencies call it
RenderTree(pkg) ==
    /\ ~CACHE.none
    /\ tree[1] = NoTree
    /\ LET r == get_tree(CACHE, pkg, <<>>, <<>>, 0)
       IN  tree' = [tree EXCEPT ![1] =
                       [raised |-> r.raised,
                        tree |-> IF r.raised = "" THEN r.tree ELSE <<>>]]
    /\ request' = [request EXCEPT ![1].name = pkg.name, ![1].version = pkg.version]
    /\ UNCHANGED <<CACHE, file, registry, stack, outcome, calls,
                   failures, ghostVars, saved, boot, normVars>>

CacheNext ==
    \/ Persist
    \/ Reload
    \/ \E pkg \in CacheIds : RenderTree(pkg)

CacheSpec == CacheInit /\ [][CacheNext]_vars

\* ------------------------------------------------------------------------
\* RaceSpec: two requests served by two threads of one process (app.run()
\* serves each request in a thread of its own), their steps interleaved.
\* The process has its CACHE already, empty, and no request fails to load
\* it; the registry knows every package, each declares one dependency at
\* most, with a specifier that translates, and the requests name their
\* package with the specifier ^1.
\* ------------------------------------------------------------------------
RaceMappings ==
    {m \in Mappings : Len(m) <= 1 /\ \A i \in 1..Len(m) : m[i][2] = <<"^", "1">>}
RaceResponses == {Response(200, TRUE, PkgInfo(TRUE, m, FALSE, <<>>)) : m \in RaceMappings}
RaceIds == {Id(n, v) : n \in Names, v \in RootVersions}

RaceInit ==
    /\ CACHE = EmptyCache
    /\ file = AbsentFile
    /\ registry \in [RaceIds -> RaceResponses]
    /\ stack = [t \in Threads |-> <<>>]
    /\ request = [t \in Threads |-> Idle]
    /\ outcome = [t \in Threads |-> NoOutcome]
    /\ tree = [t \in Threads |-> NoTree]
    /\ calls = 0
    /\ failures = 0
    /\ fetched = [t \in Threads |-> {}]
    /\ failed = [t \in Threads |-> {}]
    /\ resolved = {}
    /\ aborted = {}
    /\ saved = NothingSaved
    /\ boot = "empty"
    /\ version = <<>>
    /\ translated = NotTranslated

RaceNext ==
    \E t \in Threads :
        \/ \E name \in Names : Request(t, name, <<"^", "1">>)
        \/ Step(t)

RaceSpec == RaceInit /\ [][RaceNext]_vars

\* ------------------------------------------------------------------------
\* What the registry says about the graph
\* ------------------------------------------------------------------------
Children(id) ==
    IF Answered(id)
    THEN {Id(Declared(id)[i][1], translate_version_syntax(Declared(id)[i][2]).value) :
             i \in {j \in 1..Len(Declared(id)) :
                       translate_version_syntax(Declared(id)[j][2]).raised = ""}}
    ELSE {}

RECURSIVE ReachFrom(_)
\* the identities the registry's answers make reachable from those of S
ReachFrom(S) ==
    LET T == S \cup UNION {Children(id) : id \in S}
    IN  IF T = S THEN S ELSE ReachFrom(T)

\* the top-level Package() of thread 1 has just returned to its route
JustReturned ==
    /\ request[1].phase = "update_cache"
    /\ outcome[1].result = "returned"

\* every answer the registry gave so far was a 200
NoNotFound == \A id \in DOMAIN registry : registry[id].status = 200

\* ------------------------------------------------------------------------
\* Claims
\* ------------------------------------------------------------------------

\* the identities a resolve can meet: a name of the registry with a
\* version that is requested or that a declared specifier is translated to
Identities == {Id(n, v) : n \in Names, v \in RootVersions}

\* the identities that are keys of CACHE or have a Package() under way
Met ==
    DOMAIN CACHE.deps \cup {Key(stack[1][i]) : i \in 1..Len(stack[1])}

\* what is left to do in one frame: the steps before the loop of
\* add_dependencies, then two per dependency still to walk
FrameRank(f) ==
    CASE f.pc = "init" -> 2 * MaxSeq + 4
      [] f.pc = "discover" -> 2 * MaxSeq + 3
      [] f.pc = "fetch" -> 2 * MaxSeq + 2
      [] f.pc = "iter" -> 2 * Len(f.todo) + 1
      [] f.pc = "wait" -> 2 * Len(f.todo)

RECURSIVE StackRank(_)
StackRank(frames) ==
    IF frames = <<>> THEN 0 ELSE FrameRank(Head(frames)) + StackRank(Tail(frames))

\* a natural number that bounds the steps a resolve has left: every identity
\* not met yet can cost one more Package(), the frames on the stack the rest
Rank ==
    (2 * MaxSeq + 5) * Cardinality(Identities \ Met) + StackRank(stack[1])

\* the resolve of thread 1 is inside Package(): the innermost frame is at a
\* line that runs (InitCache, Register, FetchResponse, AddDependency or a
\* return is enabled), never waiting for a call that is not on the stack
Running ==
    /\ stack[1] # <<>>
    /\ Top(1).pc \in {"init", "discover", "fetch", "iter"}
    /\ \A i \in 1..(Len(stack[1]) - 1) : stack[1][i].pc = "wait"

\* C1: a resolve ends, also on a graph with a cycle (A -> B -> A, or
\* A -> A): while it runs it can always take a step, every step lowers the
\* natural number Rank, and it never runs into the recursion limit; and
\* when resolve(A) returns normally, A and every B with A -> B -> A are keys
\* of CACHE.
C1_CycleTerminates ==
    /\ [](request[1].phase = "resolving" => Running /\ Met \subseteq Identities)
    /\ [][(request[1].phase = "resolving" /\ request'[1].phase = "resolving")
             => Rank' < Rank]_vars
    /\ [](outcome[1].result # "RecursionError")
    /\ [](JustReturned =>
            \A b \in Children(Root(1)) :
                Root(1) \in Children(b) =>
                    /\ Root(1) \in DOMAIN CACHE.deps
                    /\ b \in DOMAIN CACHE.deps)

\* C1 witness: a resolve of A returned where A depends on itself and on B,
\* B depends on A, and both are keys.
C1_Witness ==
    /\ JustReturned
    /\ \E b \in DOMAIN CACHE.deps :
          /\ b # Root(1)
          /\ Root(1) \in DOMAIN CACHE.deps
          /\ InSeq(b, CACHE.deps[Root(1)])
          /\ InSeq(Root(1), CACHE.deps[Root(1)])
          /\ InSeq(Root(1), CACHE.deps[b])
          /\ b \in Children(Root(1))
          /\ Root(1) \in Children(b)

\* C2 (as claimed): a second top-level resolve of an identity whose first
\* resolve returned normally issues no registry request for that identity.
C2_SecondResolveIssuesNoFetch ==
    request[1].again => Root(1) \notin fetched[1]

\* C3 (as claimed): starting from an empty cache and with no failed fetch,
\* when a resolve returns the root and every identity reachable from it has
\* an entry that is exactly its declared dependencies, normalized, in order.
C3_ReachableFullyDiscovered ==
    (JustReturned /\ boot = "empty" /\ failures = 0 /\ NoNotFound)
        => \A id \in ReachFrom({Root(1)}) : FullyDiscovered(id)

\* C4 (as claimed): a resolve of a root that was aborted by a failed fetch
\* is repeated with the registry answering every request; when the retry
\* returns, every identity reachable from the root is fully discovered.
\* Stated for registries whose specifiers all normalize and which answered
\* nothing with a 404.
C4_RetryCompletesTheGraph ==
    (/\ JustReturned
     /\ request[1].retry
     /\ failed[1] = {}
     /\ boot = "empty"
     /\ NoNotFound
     /\ \A id \in DOMAIN registry : Normalizable(Declared(id)))
        => \A id \in ReachFrom({Root(1)}) : FullyDiscovered(id)

\* C5: the text of one get_tree pass has no two lines for the same
\* identity, whatever the cache.
C5_NoIdentityTwice ==
    \A i, j \in 1..Len(tree[1].tree) :
        (/\ i # j
         /\ tree[1].tree[i].kind = "node"
         /\ tree[1].tree[j].kind = "node")
            => Id(tree[1].tree[i].name, tree[1].tree[i].version)
                 # Id(tree[1].tree[j].name, tree[1].tree[j].version)

\* C5 witness: a tree of three lines from a cache with a repeated element in
\* one list, a self-dependency, and an identity listed by two other packages.
C5_Witness ==
    /\ Len(tree[1].tree) = 3
    /\ \E k \in DOMAIN CACHE.deps :
          Len(CACHE.deps[k]) = 2 /\ CACHE.deps[k][1] = CACHE.deps[k][2]
    /\ \E k \in DOMAIN CACHE.deps : InSeq(k, CACHE.deps[k])
    /\ \E k1, k2, d \in DOMAIN CACHE.deps :
          /\ k1 # k2 /\ d # k1 /\ d # k2
          /\ InSeq(d, CACHE.deps[k1])
          /\ InSeq(d, CACHE.deps[k2])

\* C6 (as claimed): a top-level resolve during which a registry request
\* failed (transport error or not-found answer) does not return normally.
C6_FailedFetchPropagates ==
    outcome[1].result = "returned" => failed[1] = {}

\* C7: a process that loads the file update_cache wrote has the CACHE that
\* was written: the same keys in the same order, each with the same list,
\* and the file holds exactly one record per key.
C7_RoundTrip ==
    boot = "reloaded" =>
        /\ CACHE = saved.cache
        /\ Len(file.items) = Cardinality(DOMAIN saved.cache.deps)
        /\ \A k \in DOMAIN saved.cache.deps :
              \E i \in 1..Len(file.items) :
                  /\ file.items[i].name = k.name
                  /\ file.items[i].version = k.version

\* C7 witness: a reloaded cache of at least two keys, one with an empty
\* list and one with the same element twice.
C7_Witness ==
    /\ boot = "reloaded"
    /\ Len(CACHE.keys) >= 2
    /\ \E k \in DOMAIN CACHE.deps : CACHE.deps[k] = <<>>
    /\ \E k \in DOMAIN CACHE.deps :
          Len(CACHE.deps[k]) = 2 /\ CACHE.deps[k][1] = CACHE.deps[k][2]

\* a file that is there and is not a JSON array of records
Malformed(f) ==
    \/ f.kind \in {"garbage", "scalar"}
    \/ f.kind = "array" /\ \E i \in 1..Len(f.items) : f.items[i].shape # "record"

\* C8 (as claimed): the step in which a process loads a malformed
\* cache.json leaves an empty CACHE and no file, and raises nothing.
C8_MalformedStoreDiscarded ==
    [][(CACHE.none /\ ~CACHE'.none /\ Malformed(file))
          => (/\ CACHE' = EmptyCache
              /\ file' = AbsentFile
              /\ outcome'[1].result = "")]_vars

\* C9: translating the result of a translation changes nothing.
C9_Idempotent ==
    (translated.done /\ translated.raised = "")
        => translate_version_syntax(translated.value) = Returned(translated.value)

\* C9 witness: a specifier with a leading operator and a wildcard was
\* translated into something else.
C9_Witness ==
    /\ translated.done
    /\ translated.raised = ""
    /\ translated.value # version
    /\ version # <<>>
    /\ version[1] \in {"~", "^", "<", "=", ">"}
    /\ \E i \in 1..Len(version) : version[i] \in {"x", "X", "*"}

\* C10 (as claimed): translate_version_syntax raises on no input.
C10_NeverRaises ==
    translated.done => translated.raised = ""

\* line 17: the specifier has a letter other than x and X and is returned
\* as it is
ShortCircuited(v) ==
    \E i \in 1..Len(v) : isalpha(v[i]) /\ v[i] # "x" /\ v[i] # "X"

\* the number of dot-separated segments of a string
Segments(v) == Len(SplitOn(v, "."))

\* C11 (as claimed): a specifier that line 17 does not return as it is is
\* translated to a string of exactly three dot-separated segments.
C11_AlwaysThreeSegments ==
    (translated.done /\ translated.raised = "" /\ ~ShortCircuited(version))
        => Segments(translated.value) = 3

\* C11 (amended): the translation of such a specifier has three segments
\* when its first token has at most three, and as many as the first token
\* when that has more.
C11_ThreeSegmentsOrMore ==
    (translated.done /\ translated.raised = "" /\ ~ShortCircuited(version))
        => LET n == Segments(FirstToken(version).value)
           IN  Segments(translated.value) = IF n < 3 THEN 3 ELSE n

\* C11 witness: a specifier of one segment behind an operator was extended
\* to three segments.
C11_Witness ==
    /\ translated.done
    /\ translated.raised = ""
    /\ ~ShortCircuited(version)
    /\ version # <<>>
    /\ version[1] \in {"~", "^", "<", "=", ">"}
    /\ Segments(FirstToken(version).value) = 1
    /\ Segments(translated.value) = 3

\* every element of every list of C is a key of C
Closed(C) ==
    \A k \in DOMAIN C.deps : \A i \in 1..Len(C.deps[k]) : C.deps[k][i] \in DOMAIN C.deps

RECURSIVE ReachInCache(_, _)
\* the identities the lists of C make reachable from those of S
ReachInCache(C, S) ==
    LET T == S \cup UNION {{C.deps[k][i] : i \in 1..Len(C.deps[k])} :
                              k \in S \cap DOMAIN C.deps}
    IN  IF T = S THEN S ELSE ReachInCache(C, T)

RECURSIVE PreOrder(_, _, _)
\* depth-first pre-order as the specification words it, with the
\* identities still to visit kept in a list, next one first: an identity
\* already printed is dropped, another one is printed at its depth and its
\* children are put, in the order of its sequence, before the rest
PreOrder(C, pending, out) ==
    IF pending = <<>> THEN out
    ELSE LET next == Head(pending)
         IN  IF \E i \in 1..Len(out) :
                    Id(out[i].name, out[i].version) = next.id
             THEN PreOrder(C, Tail(pending), out)
             ELSE PreOrder(C,
                           [i \in 1..Len(C.deps[next.id]) |->
                               [id |-> C.deps[next.id][i], depth |-> next.depth + 1]]
                           \o Tail(pending),
                           Append(out, TreeLine(next.depth, next.id)))

\* C12: get_tree from a key of a closed cache raises nothing and returns
\* the lines of the depth-first pre-order from that key: the identities
\* reachable from it, one line each, each at the depth of its first
\* encounter, children in the order of the cached sequence.
C12_DepthFirstPreOrder ==
    (tree[1] # NoTree /\ Closed(CACHE) /\ Root(1) \in DOMAIN CACHE.deps)
        => /\ tree[1].raised = ""
           /\ tree[1].tree = PreOrder(CACHE, <<[id |-> Root(1), depth |-> 0]>>, <<>>)
           /\ {Id(tree[1].tree[i].name, tree[1].tree[i].version) :
                  i \in 1..Len(tree[1].tree)} = ReachInCache(CACHE, {Root(1)})
           /\ Len(tree[1].tree) = Cardinality(ReachInCache(CACHE, {Root(1)}))

\* C12 witness: a tree of three lines at depths 0, 1 and 2 from a closed
\* cache in which the deepest node lists the root and the root lists the
\* deepest node after the middle one.
C12_Witness ==
    /\ Closed(CACHE)
    /\ Len(tree[1].tree) = 3
    /\ \A i \in 1..3 : tree[1].tree[i].depth = i - 1
    /\ LET id(i) == Id(tree[1].tree[i].name, tree[1].tree[i].version)
       IN  /\ id(1) = Root(1)
           /\ CACHE.deps[id(1)] = <<id(2), id(3)>>
           /\ InSeq(id(1), CACHE.deps[id(3)])

\* C13 (as claimed): cache.json changes only in the step that runs
\* update_cache: no step of a Package() construction changes it, so a
\* request that a failed fetch aborts leaves it as it was.
C13_OnlyPersistChangesTheFile ==
    [][file' # file
          => (request[1].phase = "update_cache" /\ file' = update_cache(CACHE))]_vars

\* C13 (amended): records are written to cache.json only by update_cache;
\* the one other change is _init_cache removing a file that is not JSON
\* when the process loads it.
C13_OnlyPersistWritesRecords ==
    [][file' # file
          => \/ (request[1].phase = "update_cache" /\ file' = update_cache(CACHE))
             \/ /\ stack[1] # <<>>
                /\ Top(1).pc = "init"
                /\ CACHE.none
                /\ file.kind = "garbage"
                /\ file' = AbsentFile]_vars

\* C13 witness: a request was aborted by a failed fetch after the cache
\* grew, and cache.json still is what the earlier update_cache wrote.
C13_Witness ==
    /\ outcome[1].result = "ConnectionError"
    /\ request[1].phase = "idle"
    /\ saved.valid
    /\ file = update_cache(saved.cache)
    /\ CACHE # saved.cache
    /\ Cardinality(DOMAIN CACHE.deps) > Cardinality(DOMAIN saved.cache.deps)

\* the identities add_dependencies appends for the mapping m, in order
NormalizedIds(m) ==
    [i \in 1..Len(m) |-> Id(m[i][1], translate_version_syntax(m[i][2]).value)]

\* C14: when the top-level Package() returns, the dependencies of the
\* requested package are those of "dependencies" when the answer has that
\* key (also when it is empty and "devDependencies" is not), else those of
\* "devDependencies" when it has that key, else none; with an empty
\* selection the request fetched nothing but the requested package.
C14_MappingSelection ==
    JustReturned =>
        LET info == registry[Root(1)].pkg_info
            selected == IF info.has_dependencies THEN info.dependencies
                        ELSE IF info.has_devDependencies THEN info.devDependencies
                        ELSE <<>>
        IN  /\ outcome[1].deps = NormalizedIds(selected)
            /\ CACHE.deps[Root(1)] = NormalizedIds(selected)
            /\ (info.has_dependencies /\ info.dependencies = <<>>)
                  => (outcome[1].deps = <<>> /\ fetched[1] = {Root(1)})
            /\ (~info.has_dependencies /\ ~info.has_devDependencies)
                  => (outcome[1].deps = <<>> /\ fetched[1] = {Root(1)})

\* C14 witness: the answer for the requested package had an empty
\* "dependencies" and a "devDependencies" that was not empty, and the
\* package was resolved to no dependency.
C14_Witness ==
    /\ JustReturned
    /\ registry[Root(1)].pkg_info.has_dependencies
    /\ registry[Root(1)].pkg_info.dependencies = <<>>
    /\ registry[Root(1)].pkg_info.has_devDependencies
    /\ registry[Root(1)].pkg_info.devDependencies # <<>>
    /\ outcome[1].deps = <<>>
    /\ fetched[1] = {Root(1)}

\* C15: a Package() that is at its registry request, or past it, has its
\* identity as a key of CACHE; so no identity has two constructions under
\* way in one request, and a dependency that names an identity under
\* construction is found in CACHE.
C15_RegisteredBeforeFetch ==
    /\ \A i \in 1..Len(stack[1]) :
          stack[1][i].pc \in {"fetch", "iter", "wait"}
              => Key(stack[1][i]) \in DOMAIN CACHE.deps
    /\ \A i, j \in 1..Len(stack[1]) :
          i # j => Key(stack[1][i]) # Key(stack[1][j])
    /\ \A i \in 1..Len(stack[1]) :
          (stack[1][i].pc = "iter" /\ stack[1][i].todo # <<>>)
              => LET ver == translate_version_syntax(Head(stack[1][i].todo)[2])
                     pkg_id == Id(Head(stack[1][i].todo)[1], ver.value)
                 IN  (ver.raised = "" /\ \E j \in 1..Len(stack[1]) :
                                             j <= i /\ Key(stack[1][j]) = pkg_id)
                        => ~NeedsPackage(CACHE, pkg_id)

\* C15 witness: the Package() of B, nested in that of A, is about to walk
\* B's dependency on A while A's own list is still empty.
C15_Witness ==
    /\ Len(stack[1]) = 2
    /\ stack[1][1].pc = "wait"
    /\ stack[1][2].pc = "iter"
    /\ stack[1][2].todo # <<>>
    /\ Key(stack[1][1]) # Key(stack[1][2])
    /\ translate_version_syntax(Head(stack[1][2].todo)[2]).raised = ""
    /\ Id(Head(stack[1][2].todo)[1],
          translate_version_syntax(Head(stack[1][2].todo)[2]).value) = Key(stack[1][1])
    /\ Key(stack[1][1]) \in DOMAIN CACHE.deps
    /\ CACHE.deps[Key(stack[1][1])] = <<>>

\* C16 (as claimed): every key of CACHE has a version that
\* translate_version_syntax leaves as it is, the version of the requested
\* package included, so that a package requested with a raw specifier and
\* the same package declared with that specifier are one key.
C16_KeysAreNormalized ==
    \A k \in DOMAIN CACHE.deps :
        translate_version_syntax(k.version) = Returned(k.version)

CallEnded ==
    /\ ~CACHE.none
    /\ request[1].phase # "resolving"
    /\ outcome[1].result \in {"returned", "ConnectionError", "JSONDecodeError"}

\* C19 (as claimed): an entry that was complete when a top-level Package()
\* started is the same when it is over, whether it returned or was aborted
\* by a failed fetch, also the entry of the requested package.
C19_CompleteEntriesKept ==
    CallEnded =>
        \A id \in DOMAIN request[1].complete :
            /\ id \in DOMAIN CACHE.deps
            /\ CACHE.deps[id] = request[1].complete[id]

\* the top-level Package() of thread t has just returned to its route
JustReturnedTo(t) ==
    /\ request[t].phase = "update_cache"
    /\ outcome[t].result = "returned"

\* thread t has taken a step of its innermost Package(): the frame is at
\* another line, or the stack has another height
TopMoved(t) ==
    \/ Len(stack'[t]) # Len(stack[t])
    \/ stack'[t][Len(stack[t])].pc # Top(t).pc

\* C17: nothing stands between the test of line 118 and the registration
\* of line 134. A Package() that its caller started is not stopped by what
\* another thread did since: its next step stores an empty list under its
\* identity, also when the identity has become a key, and goes on to the
\* registry request; and a thread at that request issues it.  So two
\* threads that both passed the test for one identity (the witness) both
\* fetch it and both resolve what it depends on.
C17_CheckThenRegisterIsNotAtomic ==
    /\ [][\A t \in Threads :
             (/\ stack[t] # <<>>
              /\ Top(t).pc = "discover"
              /\ TopMoved(t))
                 => /\ Len(stack'[t]) = Len(stack[t])
                    /\ stack'[t][Len(stack[t])].pc = "fetch"
                    /\ Key(Top(t)) \in DOMAIN CACHE'.deps
                    /\ CACHE'.deps[Key(Top(t))] = <<>>]_vars
    /\ [][\A t \in Threads :
             (/\ stack[t] # <<>>
              /\ Top(t).pc = "fetch"
              /\ TopMoved(t))
                 => Key(Top(t)) \in fetched'[t]]_vars

\* C17 witness: both threads are inside the Package() of one identity X
\* that a package of theirs depends on, so both found X missing before
\* either stored it; both went on to fetch X and are now at the registry
\* request of Y, which X depends on: X was fetched twice and its subtree is
\* being resolved twice.
C17_Witness ==
    /\ Len(stack[1]) = 3
    /\ Len(stack[2]) = 3
    /\ Key(stack[1][2]) = Key(stack[2][2])
    /\ Key(stack[1][3]) = Key(stack[2][3])
    /\ Key(stack[1][2]) # Key(stack[1][3])
    /\ Key(stack[1][2]) \in fetched[1] \cap fetched[2]
    /\ stack[1][3].pc = "fetch"
    /\ stack[2][3].pc = "fetch"

\* C20 (as claimed): when the top-level Package() of a thread returns, with
\* no fetch having failed, the requested package and every identity
\* reachable from it have entries that are exactly what the registry
\* declares, whatever the other thread is doing.
C20_SessionCompleteUnderInterleaving ==
    \A t \in Threads :
        (JustReturnedTo(t) /\ failures = 0)
            => \A id \in ReachFrom({Root(t)}) : FullyDiscovered(id)

====
